---- MODULE Spec2Model ----
(***************************************************************************)
(* Model of the BONDIGO companion app (src/app.py): the token economy,     *)
(* the mystery-box purchase and the daily airdrop, run by two browser      *)
(* sessions of one user against the shared store (tables users and         *)
(* collection).  Every store call is one step, so the steps of two         *)
(* sessions interleave the way two Streamlit script runs do.               *)
(*                                                                         *)
(* A nullable column or value is a sequence of length 0 (None) or 1.       *)
(* Time is counted in days.                                                *)
(***************************************************************************)
EXTENDS Integers, FiniteSets, Sequences, Bags, TLC

\* ───────────── bounds ─────────────
MaxTime     == 1      \* the clock runs 0..MaxTime
MaxFailures == 1      \* store calls that may fail in one behaviour
MaxCalls    == 2      \* purchases that get past their checks, two sessions
MaxLogins   == 2      \* sign-ins and auto-logins, two sessions
MaxSoloCalls  == 3    \* the same, one session alone
MaxSoloLogins == 2

\* ───────────── constants of the program ─────────────
DAILY_AIRDROP == 150
Day           == 1    \* timedelta(hours=24), in days
StartTokens   == 1000 \* create_user_row: "tokens": 1000

Sessions == {"s1", "s2"}

COST == [Common |-> 50, Rare |-> 150, Legendary |-> 400]

MYSTERY_COST ==
  [t \in {"Basic Bond", "Premium Bond", "Elite Bond"} |->
     CASE t = "Basic Bond"   -> 50
       [] t = "Premium Bond" -> 150
       [] t = "Elite Bond"   -> 400]

Tiers == DOMAIN MYSTERY_COST

MYSTERY_ODDS ==
  [t \in Tiers |->
     CASE t = "Basic Bond"   -> [Common |-> 80, Rare |-> 18, Legendary |-> 2]
       [] t = "Premium Bond" -> [Common |-> 30, Rare |-> 50, Legendary |-> 20]
       [] t = "Elite Bond"   -> [Common |-> 10, Rare |-> 30, Legendary |-> 60]]

Traits == {"wit", "empathy", "creativity", "knowledge", "boldness"}

\* companions.json is not part of the source tree.  The catalog here has a
\* companion in the band 300..349, where the tier mapping (Premium Bond) and
\* the rarity thresholds (Common) part and the static rarity tag says Rare,
\* and a Legendary one.
COMPANIONS ==
  { [id |-> "c1", rarity |-> "Rare", total_stats |-> 320,
     stats |-> [wit |-> 85, empathy |-> 60, creativity |-> 60, knowledge |-> 55, boldness |-> 60]],
    [id |-> "c2", rarity |-> "Legendary", total_stats |-> 420,
     stats |-> [wit |-> 96, empathy |-> 85, creativity |-> 80, knowledge |-> 79, boldness |-> 80]] }

Ids == {c.id : c \in COMPANIONS}

CID2COMP == [i \in Ids |-> CHOOSE c \in COMPANIONS : c.id = i]

RECURSIVE SumFn(_)
SumFn(f) ==
  IF DOMAIN f = {} THEN 0
  ELSE LET x == CHOOSE y \in DOMAIN f : TRUE
       IN  f[x] + SumFn([y \in DOMAIN f \ {x} |-> f[y]])

\* ───────────── rarity and tier of a companion ─────────────
\* calculate_true_rarity, lines 100-104: Rare from 300
get_actual_rarity_From300(companion) ==
  IF companion.total_stats >= 400 THEN "Legendary"
  ELSE IF companion.total_stats >= 300 THEN "Rare"
  ELSE "Common"

get_actual_rarity(companion) ==
  IF companion.total_stats >= 400 THEN "Legendary"
  ELSE IF companion.total_stats >= 350 THEN "Rare"
  ELSE "Common"

get_mystery_tier_from_companion(companion) ==
  IF companion.total_stats >= 400 THEN "Elite Bond"
  ELSE IF companion.total_stats >= 300 THEN "Premium Bond"
  ELSE "Basic Bond"

\* ───────────── the roll ─────────────
\* the weighted list as a bag: companion |-> number of copies
weighted_companions(mystery_tier, available_companions) ==
  [c \in available_companions |-> MYSTERY_ODDS[mystery_tier][get_actual_rarity(c)]]

\* the ids random.choice can return
roll_mystery_companion_Unfiltered(mystery_tier, available) == Ids

roll_mystery_companion(mystery_tier, available) ==
  LET w == weighted_companions(mystery_tier, {CID2COMP[i] : i \in available})
  IN  IF SumFn(w) = 0 THEN available
      ELSE {i \in available : w[CID2COMP[i]] > 0}

NoMore_AlreadyOwned == "Already owned"

NoMore == "No more companions available!"

\* lines 692-707: the outcomes of the mystery branch, an id or NoMore
MysteryOutcomes(mystery_tier, owned) ==
  LET available == Ids \ owned
  IN  IF available = {} THEN {NoMore}
      ELSE UNION { IF i \in owned
                   THEN IF available \ {i} # {}
                        THEN roll_mystery_companion(mystery_tier, available \ {i})
                        ELSE {NoMore}
                   ELSE {i}
                 : i \in roll_mystery_companion(mystery_tier, available) }

\* ───────────── collection score ─────────────
\* int(sum(total_stats * 0.7)): 0.7 is a binary double, and for the totals of
\* the catalogs here (320, 370, 420) every subset in every summation order
\* truncates to the same integer as the exact 7/10 of the sum (a lone total of
\* 360 would give 251).
base_score(user_companions) ==
  (7 * SumFn([c \in user_companions |-> c.total_stats])) \div 10

stat_groups(user_companions) ==
  [t \in Traits |-> {c.id : c \in {x \in user_companions : x.stats[t] >= 80}}]

synergy_bonus(user_companions) ==
  SumFn([t \in Traits |->
           IF Cardinality(stat_groups(user_companions)[t]) >= 2
           THEN Cardinality(stat_groups(user_companions)[t]) * 25 ELSE 0])

rarity_counts(user_companions) ==
  [r \in {"Common", "Rare", "Legendary"} |->
     Cardinality({c \in user_companions : get_actual_rarity(c) = r})]

rarity_bonus(user_companions) ==
  50 * rarity_counts(user_companions)["Rare"]
  + 125 * rarity_counts(user_companions)["Legendary"]

\* lines 1319-1330: the milestone of the collection size, an if / elif chain
size_achievement(collection_size) ==
  IF collection_size >= 15 THEN <<[name |-> "Mega Collector (15+ companions)", bonus |-> 300]>>
  ELSE IF collection_size >= 8
    THEN <<[name |-> "Growing Collection (8+ companions)", bonus |-> 100]>>
  ELSE IF collection_size >= 3
    THEN <<[name |-> "First Steps (3+ companions)", bonus |-> 50]>>
  ELSE <<>>

\* lines 1332-1341: the milestone of the number of Legendary companions
legendary_achievement(legendaries) ==
  IF legendaries >= 5 THEN <<[name |-> "Legend Master (5+ Legendaries)", bonus |-> 500]>>
  ELSE IF legendaries >= 2
    THEN <<[name |-> "Legend Collector (2+ Legendaries)", bonus |-> 150]>>
  ELSE IF legendaries >= 1 THEN <<[name |-> "First Legend", bonus |-> 75]>>
  ELSE <<>>

\* lines 1343-1346: one of each rarity
diversity_achievement(counts) ==
  IF \A r \in DOMAIN counts : counts[r] > 0
  THEN <<[name |-> "Rarity Master (All tiers)", bonus |-> 200]>> ELSE <<>>

\* the loop without its break: one award for every companion with a stat of 95
stat_achievement_NoBreak(user_companions) ==
  [k \in 1..Cardinality({c \in user_companions : \E t \in Traits : c.stats[t] >= 95}) |->
     [name |-> "Stat Perfectionist (95+ stat)", bonus |-> 100]]

\* lines 1348-1353: the loop stops at the first companion with a stat of 95
stat_achievement(user_companions) ==
  IF \E c \in user_companions : \E t \in Traits : c.stats[t] >= 95
  THEN <<[name |-> "Stat Perfectionist (95+ stat)", bonus |-> 100]>> ELSE <<>>

\* the achievements in the order the code appends them, each with the bonus
\* added with it
achievements(user_companions) ==
  size_achievement(Cardinality(user_companions))
  \o legendary_achievement(rarity_counts(user_companions)["Legendary"])
  \o diversity_achievement(rarity_counts(user_companions))
  \o stat_achievement(user_companions)

achievements_earned(user_companions) ==
  [k \in DOMAIN achievements(user_companions) |-> achievements(user_companions)[k].name]

achievement_bonus(user_companions) ==
  SumFn([k \in DOMAIN achievements(user_companions) |->
           achievements(user_companions)[k].bonus])

\* the achievement bonus left out of the total
calculate_collection_score_NoAchievements(owned_ids, catalog) ==
  IF owned_ids = {} THEN [total |-> 0, breakdown |-> [k \in {} |-> 0]]
  ELSE LET user_companions == {catalog[cid] : cid \in owned_ids}
       IN  [total |-> base_score(user_companions) + synergy_bonus(user_companions)
                      + rarity_bonus(user_companions),
            breakdown |->
              [base_score |-> base_score(user_companions),
               synergy_bonus |-> synergy_bonus(user_companions),
               rarity_bonus |-> rarity_bonus(user_companions),
               achievement_bonus |-> achievement_bonus(user_companions),
               stat_groups |-> stat_groups(user_companions),
               rarity_counts |-> rarity_counts(user_companions),
               achievements_earned |-> achievements_earned(user_companions)]]

\* the dict returned for the owned ids; catalog is CID2COMP
calculate_collection_score(owned_ids, catalog) ==
  IF owned_ids = {} THEN [total |-> 0, breakdown |-> [k \in {} |-> 0]]
  ELSE LET user_companions == {catalog[cid] : cid \in owned_ids}
       IN  [total |-> base_score(user_companions) + synergy_bonus(user_companions)
                      + rarity_bonus(user_companions) + achievement_bonus(user_companions),
            breakdown |->
              [base_score |-> base_score(user_companions),
               synergy_bonus |-> synergy_bonus(user_companions),
               rarity_bonus |-> rarity_bonus(user_companions),
               achievement_bonus |-> achievement_bonus(user_companions),
               stat_groups |-> stat_groups(user_companions),
               rarity_counts |-> rarity_counts(user_companions),
               achievements_earned |-> achievements_earned(user_companions)]]

\* lines 1373-1390
get_collection_level_info(collection_score) ==
  IF collection_score < 1000 THEN [level |-> 1, title |-> "Rookie Collector"]
  ELSE IF collection_score < 3000 THEN [level |-> 2, title |-> "Bond Enthusiast"]
  ELSE IF collection_score < 6000 THEN [level |-> 3, title |-> "Collection Curator"]
  ELSE IF collection_score < 10000 THEN [level |-> 4, title |-> "Master Collector"]
  ELSE IF collection_score < 15000 THEN [level |-> 5, title |-> "Collection Legend"]
  ELSE [level |-> 6, title |-> "Grandmaster"]

\* ───────────── state ─────────────
VARIABLES
  scope,        \* the sessions that take part, and the caps on calls and logins
  now,          \* the wall clock
  failures,     \* store calls that have failed so far
  calls,        \* purchases that got past their checks so far
  logins,       \* sign-ins and auto-logins so far
  pairUnique,   \* whether table collection has a unique key (user_id, companion_id)
  users,        \* the user's row of table users
  collection,   \* the user's rows of table collection, a bag
  pc,           \* where each session's script run stands
  url_auto,     \* the auto_login query parameter of the session's URL
  user,         \* st.session_state.user: the session's copy of the row
  fresh,        \* the row get_user_row returned to the running call
  kind,         \* the purchase running: "mystery", "specific" or "legacy"
  tier,         \* its mystery_tier
  chosen,       \* its chosen_companion
  owned_ids,    \* the owned ids the mystery branch read
  score_calc,   \* the score update_user_collection_score computed
  outcome,      \* what the session's last purchase returned
  runs,         \* script runs of the Chat page so far
  companion_stats_revealed,  \* the rows of the reveal analytics table, a bag
  companion_bonds,           \* the user's row of table companion_bonds per companion
  messages,     \* number of rows of table messages
  chat_cid,     \* st.session_state.chat_cid
  input,        \* the length of the chat input of the run, if there is one
  reveal_info,  \* what reveal_companion_stats returned to the run
  info_tier,    \* collection_info["mystery_tier"] in reveal_companion_stats
  old_xp,       \* old_xp in update_user_bond_xp
  xp_earned,    \* what award_chat_xp returned
  updated_user, \* what update_user_bond_xp returned to award_chat_xp
  classified,   \* the last total the rarity classifier was applied to, and its answer
  computed,     \* the last call of a function of the catalog, and what it returned
  spent,        \* st.session_state.spent: the LLM tokens the session has used
  user_rows,    \* how many rows of table users have the user's id
  usersKeyed,   \* whether table users has a unique key on id
  pending_signups,  \* the rows of table pending_signups
  confirm       \* the request of the e-mail confirmation link: its email parameter,
                \* the visits so far, where the running one stands, its pending row

confirmvars == <<user_rows, usersKeyed, pending_signups, confirm>>

chatvars == <<runs, companion_stats_revealed, companion_bonds, messages, chat_cid, input,
              reveal_info, info_tier, old_xp, xp_earned, updated_user>>

vars == <<scope, now, failures, calls, logins, pairUnique, users, collection, pc, url_auto, user,
          fresh, kind, tier, chosen, owned_ids, score_calc, outcome, chatvars, classified, computed, spent,
          confirmvars>>

store  == <<users, collection>>
locals == <<kind, tier, chosen, owned_ids, score_calc>>

\* create_user_row
NewUserRow ==
  [tokens |-> StartTokens, last_airdrop |-> <<>>, created_at |-> 0,
   collection_score |-> 0, collection_level |-> 1, collection_title |-> "Rookie Collector",
   bond_xp |-> 0, bond_level |-> 1, bond_title |-> "Bond Newbie"]

\* the fields of a row the operations below read from a copy of it
Wallet(row) ==
  [tokens |-> row.tokens, last_airdrop |-> row.last_airdrop,
   created_at |-> row.created_at]

\* nobody is signed in, the tables other than users are empty
InitSessions ==
  /\ now = 0
  /\ failures = 0
  /\ calls = 0
  /\ logins = 0
  /\ runs = 0
  /\ collection = EmptyBag
  /\ companion_stats_revealed = EmptyBag
  /\ companion_bonds = [c \in Ids |-> <<>>]
  /\ messages = 0
  /\ chat_cid = [s \in Sessions |-> "none"]
  /\ input = [s \in Sessions |-> <<>>]
  /\ reveal_info = [s \in Sessions |-> <<>>]
  /\ info_tier = [s \in Sessions |-> <<>>]
  /\ old_xp = [s \in Sessions |-> 0]
  /\ xp_earned = [s \in Sessions |-> 0]
  /\ updated_user = [s \in Sessions |-> <<>>]
  /\ classified = <<>>
  /\ computed = <<>>
  /\ spent = [s \in Sessions |-> 0]
  /\ pc = [s \in Sessions |-> "out"]
  /\ url_auto = [s \in Sessions |-> FALSE]
  /\ user = [s \in Sessions |-> <<>>]
  /\ fresh = [s \in Sessions |-> <<>>]
  /\ kind = [s \in Sessions |-> "none"]
  /\ tier = [s \in Sessions |-> "none"]
  /\ chosen = [s \in Sessions |-> "none"]
  /\ owned_ids = [s \in Sessions |-> {}]
  /\ score_calc = [s \in Sessions |-> 0]
  /\ outcome = [s \in Sessions |-> "none"]

\* the user has confirmed the e-mail address: the row exists, no signup is
\* pending and the link is not visited again (the key of the table plays no part)
Confirmed ==
  /\ user_rows = 1
  /\ usersKeyed = TRUE
  /\ pending_signups = {}
  /\ confirm = [pc |-> "idle", email |-> <<>>, visits |-> 0, pending |-> <<>>]

\* the user's row is new
InitState ==
  /\ InitSessions
  /\ Confirmed
  /\ pairUnique \in BOOLEAN
  /\ users = NewUserRow

\* two sessions of the user
Init ==
  /\ InitState
  /\ scope = [sessions |-> Sessions, calls |-> MaxCalls, logins |-> MaxLogins, runs |-> 0,
              usage |-> {}]

\* one session alone
InitSolo ==
  /\ InitState
  /\ scope = [sessions |-> {"s1"}, calls |-> MaxSoloCalls, logins |-> MaxSoloLogins,
              runs |-> 0, usage |-> {}]

\* ───────────── store reads ─────────────
collection_set == {r.companion_id : r \in BagToSet(collection)}

\* number of collection rows of one companion
RowsOf(cid) ==
  SumFn([r \in {q \in BagToSet(collection) : q.companion_id = cid} |-> collection[r]])

\* ───────────── daily airdrop ─────────────
LastAirdrop(u) ==
  IF u.last_airdrop = <<>> THEN u.created_at ELSE u.last_airdrop[1]

AirdropDue_Strict(u) == now - LastAirdrop(u) > Day

AirdropDue(u) == now - LastAirdrop(u) >= Day

\* the row the update (lines 248-251) leaves in the store and returns
AirdropUpdate(u) ==
  [users EXCEPT !.tokens = u.tokens + DAILY_AIRDROP, !.last_airdrop = <<now>>]

\* apply_daily_airdrop(u): the stored row after the call, and the row returned
apply_daily_airdrop(u) ==
  IF AirdropDue(u)
  THEN [stored |-> AirdropUpdate(u), returned |-> Wallet(AirdropUpdate(u)), wrote |-> TRUE]
  ELSE [stored |-> users, returned |-> u, wrote |-> FALSE]

\* ───────────── sessions: sign-in, auto-login, logout ─────────────
\* lines 2075-2081: sign-in reads the user row
Login(s) ==
  /\ pc[s] = "out" /\ ~url_auto[s]
  /\ user_rows > 0
  /\ s \in scope.sessions /\ logins < scope.logins
  /\ logins' = logins + 1
  /\ pc' = [pc EXCEPT ![s] = "login"]
  /\ fresh' = [fresh EXCEPT ![s] = <<Wallet(users)>>]
  /\ UNCHANGED <<scope, spent, confirmvars, classified, computed, chatvars, now, calls, failures, pairUnique, store, url_auto, user,
                 locals, outcome>>

\* lines 1818-1829: a new script session of a URL that carries auto_login
AutoLogin(s) ==
  /\ pc[s] = "out" /\ url_auto[s]
  /\ user_rows > 0
  /\ s \in scope.sessions /\ logins < scope.logins
  /\ logins' = logins + 1
  /\ pc' = [pc EXCEPT ![s] = "login"]
  /\ fresh' = [fresh EXCEPT ![s] = <<Wallet(users)>>]
  /\ UNCHANGED <<scope, spent, confirmvars, classified, computed, chatvars, now, calls, failures, pairUnique, store, url_auto, user,
                 locals, outcome>>

\* lines 1832-1839 and 2081-2097: the airdrop on the row read, then the session
LoginAirdrop(s) ==
  /\ pc[s] = "login"
  /\ LET r == apply_daily_airdrop(fresh[s][1])
     IN  /\ users' = r.stored
         /\ user' = [user EXCEPT ![s] = <<r.returned>>]
  /\ pc' = [pc EXCEPT ![s] = "idle"]
  /\ fresh' = [fresh EXCEPT ![s] = <<>>]
  /\ url_auto' = [url_auto EXCEPT ![s] = TRUE]
  /\ spent' = [spent EXCEPT ![s] = 0]
  /\ UNCHANGED <<scope, confirmvars, classified, computed, chatvars, now, calls, logins, failures, pairUnique,
                 collection, locals, outcome>>

\* the airdrop update raises: no session (auto-login clears the parameter)
LoginAirdropFail(s) ==
  /\ pc[s] = "login" /\ AirdropDue(fresh[s][1]) /\ failures < MaxFailures
  /\ failures' = failures + 1
  /\ pc' = [pc EXCEPT ![s] = "out"]
  /\ fresh' = [fresh EXCEPT ![s] = <<>>]
  /\ url_auto' = [url_auto EXCEPT ![s] = FALSE]
  /\ UNCHANGED <<scope, spent, confirmvars, classified, computed, chatvars, now, calls, logins, pairUnique, store, user, locals, outcome>>

\* lines 2204-2213: the Exit button deletes the session state and the parameter
Logout(s) ==
  /\ pc[s] = "idle"
  /\ pc' = [pc EXCEPT ![s] = "out"]
  /\ user' = [user EXCEPT ![s] = <<>>]
  /\ url_auto' = [url_auto EXCEPT ![s] = FALSE]
  /\ outcome' = [outcome EXCEPT ![s] = "none"]
  /\ UNCHANGED <<scope, spent, confirmvars, classified, computed, chatvars, now, calls, logins, failures, pairUnique, store, fresh, locals>>

\* a reload of the page: the session state is gone, the URL keeps auto_login
Reload(s) ==
  /\ pc[s] = "idle"
  /\ pc' = [pc EXCEPT ![s] = "out"]
  /\ user' = [user EXCEPT ![s] = <<>>]
  /\ outcome' = [outcome EXCEPT ![s] = "none"]
  /\ UNCHANGED <<scope, spent, confirmvars, classified, computed, chatvars, now, calls, logins, failures, pairUnique, store, url_auto, fresh,
                 locals>>

Tick ==
  /\ now < MaxTime
  /\ now' = now + 1
  /\ UNCHANGED <<scope, spent, confirmvars, classified, computed, chatvars, calls, logins, failures, pairUnique, store, pc, url_auto, user,
                 fresh, locals, outcome>>

\* ───────────── purchases ─────────────
\* "if price > user["tokens"]", on the session's copy of the row
NotEnoughTokens_Strict(price, u) == price >= u.tokens

NotEnoughTokens_Never(price, u) == FALSE

NotEnoughTokens(price, u) == price > u.tokens

\* the price of the purchase a session is running
PriceOf(s) ==
  IF kind[s] = "legacy" THEN COST[CID2COMP[chosen[s]].rarity]
  ELSE MYSTERY_COST[tier[s]]

ResetLocals(s) ==
  /\ kind' = [kind EXCEPT ![s] = "none"]
  /\ tier' = [tier EXCEPT ![s] = "none"]
  /\ chosen' = [chosen EXCEPT ![s] = "none"]
  /\ owned_ids' = [owned_ids EXCEPT ![s] = {}]
  /\ score_calc' = [score_calc EXCEPT ![s] = 0]

\* "return False, msg": the caller shows the message, the session keeps its state
Return(s, msg) ==
  /\ outcome' = [outcome EXCEPT ![s] = msg]
  /\ UNCHANGED <<pc, locals, calls>>

\* the checks passed: on to the token update
Proceed(s, k, mt, c, owned) ==
  /\ calls < scope.calls
  /\ calls' = calls + 1
  /\ pc' = [pc EXCEPT ![s] = "debit"]
  /\ outcome' = [outcome EXCEPT ![s] = "running"]
  /\ kind' = [kind EXCEPT ![s] = k]
  /\ tier' = [tier EXCEPT ![s] = mt]
  /\ chosen' = [chosen EXCEPT ![s] = c]
  /\ owned_ids' = [owned_ids EXCEPT ![s] = owned]
  /\ UNCHANGED score_calc

\* an unhandled exception ends the script run; the session state stays
Raise(s) ==
  /\ failures' = failures + 1
  /\ pc' = [pc EXCEPT ![s] = "idle"]
  /\ outcome' = [outcome EXCEPT ![s] = "exception"]
  /\ fresh' = [fresh EXCEPT ![s] = <<>>]
  /\ ResetLocals(s)

\* buy_mystery_box_hybrid(user, mystery_tier, specific_companion), lines 674-707;
\* the page passes a named companion with the tier of its stats (lines 2319-2333)
HybridBegin(s, mt, sc) ==
  /\ pc[s] = "idle"
  /\ sc # "none" => mt = get_mystery_tier_from_companion(CID2COMP[sc])
  /\ IF NotEnoughTokens(MYSTERY_COST[mt], user[s][1])
     THEN Return(s, "Not enough")
     ELSE IF sc # "none"
          THEN IF sc \in collection_set
               THEN Return(s, "Already owned")
               ELSE Proceed(s, "specific", mt, sc, {})
          ELSE \E o \in MysteryOutcomes(mt, collection_set) :
                  IF o = NoMore
                  THEN Return(s, NoMore)
                  ELSE Proceed(s, "mystery", mt, o, collection_set)
  /\ UNCHANGED <<scope, spent, confirmvars, classified, computed, chatvars, now, logins, failures, pairUnique, store, url_auto, user,
                 fresh>>

\* the select of lines 681-684 or 692 raises
HybridBeginFail(s, mt, sc) ==
  /\ pc[s] = "idle"
  /\ sc # "none" => mt = get_mystery_tier_from_companion(CID2COMP[sc])
  /\ ~NotEnoughTokens(MYSTERY_COST[mt], user[s][1])
  /\ failures < MaxFailures
  /\ Raise(s)
  /\ UNCHANGED <<scope, spent, confirmvars, classified, computed, chatvars, now, calls, logins, pairUnique, store, url_auto, user>>

\* buy(user, comp), lines 1164-1172
LegacyBegin(s, c) ==
  /\ pc[s] = "idle"
  /\ IF NotEnoughTokens(COST[CID2COMP[c].rarity], user[s][1])
     THEN Return(s, "Not enough")
     ELSE IF c \in collection_set
          THEN Return(s, "Already owned")
          ELSE Proceed(s, "legacy", "none", c, {})
  /\ UNCHANGED <<scope, spent, confirmvars, classified, computed, chatvars, now, logins, failures, pairUnique, store, url_auto, user,
                 fresh>>

\* the select of lines 1167-1170 raises
LegacyBeginFail(s, c) ==
  /\ pc[s] = "idle"
  /\ ~NotEnoughTokens(COST[CID2COMP[c].rarity], user[s][1])
  /\ failures < MaxFailures
  /\ Raise(s)
  /\ UNCHANGED <<scope, spent, confirmvars, classified, computed, chatvars, now, calls, logins, pairUnique, store, url_auto, user>>

\* lines 710-711 and 1174-1175: the balance written is the session's copy less the price
Debit(s) ==
  /\ pc[s] = "debit"
  /\ users' = [users EXCEPT !.tokens = user[s][1].tokens - PriceOf(s)]
  /\ pc' = [pc EXCEPT ![s] = "insert"]
  /\ UNCHANGED <<scope, spent, confirmvars, classified, computed, chatvars, now, calls, logins, failures, pairUnique, collection, url_auto, user,
                 fresh, locals, outcome>>

DebitFail(s) ==
  /\ pc[s] = "debit" /\ failures < MaxFailures
  /\ Raise(s)
  /\ UNCHANGED <<scope, spent, confirmvars, classified, computed, chatvars, now, calls, logins, pairUnique, store, url_auto, user>>

\* the row inserted: lines 714-720, and lines 1176-1179 (no revealed, no tier)
OwnershipRecord_Hidden(s) ==
  IF kind[s] = "legacy"
  THEN [companion_id |-> chosen[s], revealed |-> <<>>, mystery_tier |-> <<>>]
  ELSE [companion_id |-> chosen[s], revealed |-> <<FALSE>>, mystery_tier |-> <<tier[s]>>]

OwnershipRecord_Revealed(s) ==
  IF kind[s] = "legacy"
  THEN [companion_id |-> chosen[s], revealed |-> <<>>, mystery_tier |-> <<>>]
  ELSE [companion_id |-> chosen[s], revealed |-> <<TRUE>>, mystery_tier |-> <<tier[s]>>]

OwnershipRecord(s) ==
  IF kind[s] = "legacy"
  THEN [companion_id |-> chosen[s], revealed |-> <<>>, mystery_tier |-> <<>>]
  ELSE [companion_id |-> chosen[s], revealed |-> <<kind[s] = "specific">>,
        mystery_tier |-> <<tier[s]>>]

Insert(s) ==
  /\ pc[s] = "insert"
  /\ ~(pairUnique /\ chosen[s] \in collection_set)
  /\ collection' = collection (+) SetToBag({OwnershipRecord(s)})
  /\ pc' = [pc EXCEPT ![s] = IF kind[s] = "legacy" THEN "fresh" ELSE "score"]
  /\ UNCHANGED <<scope, spent, confirmvars, classified, computed, chatvars, now, calls, logins, failures, pairUnique, users, url_auto, user,
                 fresh, locals, outcome>>

\* a keyed table refuses the second row of a pair: the insert raises
InsertDuplicate(s) ==
  /\ pc[s] = "insert"
  /\ pairUnique /\ chosen[s] \in collection_set
  /\ pc' = [pc EXCEPT ![s] = "idle"]
  /\ outcome' = [outcome EXCEPT ![s] = "exception"]
  /\ ResetLocals(s)
  /\ UNCHANGED <<scope, spent, confirmvars, classified, computed, chatvars, now, calls, logins, failures, pairUnique, store, url_auto, user,
                 fresh>>

InsertFail(s) ==
  /\ pc[s] = "insert" /\ failures < MaxFailures
  /\ Raise(s)
  /\ UNCHANGED <<scope, spent, confirmvars, classified, computed, chatvars, now, calls, logins, pairUnique, store, url_auto, user>>

\* update_user_collection_score, lines 1394-1396: the score of the rows read
ScoreRead(s) ==
  /\ pc[s] = "score"
  /\ score_calc' = [score_calc EXCEPT ![s] = calculate_collection_score(collection_set, CID2COMP).total]
  /\ pc' = [pc EXCEPT ![s] = "score_write"]
  /\ UNCHANGED <<scope, spent, confirmvars, classified, computed, chatvars, now, calls, logins, failures, pairUnique, store, url_auto, user,
                 fresh, kind, tier, chosen, owned_ids, outcome>>

\* lines 1399-1403
ScoreWrite(s) ==
  /\ pc[s] = "score_write"
  /\ users' = [users EXCEPT
                 !.collection_score = score_calc[s],
                 !.collection_level = get_collection_level_info(score_calc[s]).level,
                 !.collection_title = get_collection_level_info(score_calc[s]).title]
  /\ pc' = [pc EXCEPT ![s] = "fresh"]
  /\ UNCHANGED <<scope, spent, confirmvars, classified, computed, chatvars, now, calls, logins, failures, pairUnique, collection, url_auto, user,
                 fresh, locals, outcome>>

\* lines 1408-1410: a failure of either call is logged and the purchase goes on
ScoreFail(s) ==
  /\ pc[s] \in {"score", "score_write"} /\ failures < MaxFailures
  /\ failures' = failures + 1
  /\ pc' = [pc EXCEPT ![s] = "fresh"]
  /\ UNCHANGED <<scope, spent, confirmvars, classified, computed, chatvars, now, calls, logins, pairUnique, store, url_auto, user, fresh, locals,
                 outcome>>

\* get_user_row, lines 725 and 1180
Fresh(s) ==
  /\ pc[s] = "fresh"
  /\ fresh' = [fresh EXCEPT ![s] = <<Wallet(users)>>]
  /\ pc' = [pc EXCEPT ![s] = "airdrop"]
  /\ UNCHANGED <<scope, spent, confirmvars, classified, computed, chatvars, now, calls, logins, failures, pairUnique, store, url_auto, user,
                 locals, outcome>>

\* get_user_row returns None (lines 1024-1026) and apply_daily_airdrop(None) raises
FreshFail(s) ==
  /\ pc[s] = "fresh" /\ failures < MaxFailures
  /\ Raise(s)
  /\ UNCHANGED <<scope, spent, confirmvars, classified, computed, chatvars, now, calls, logins, pairUnique, store, url_auto, user>>

\* lines 726 and 1181, and the caller's lines 2334-2338: "return True", the
\* wallet returned becomes the session's copy
BuyAirdrop(s) ==
  /\ pc[s] = "airdrop"
  /\ LET r == apply_daily_airdrop(fresh[s][1])
     IN  /\ users' = r.stored
         /\ user' = [user EXCEPT ![s] = <<r.returned>>]
  /\ pc' = [pc EXCEPT ![s] = "idle"]
  /\ outcome' = [outcome EXCEPT ![s] = "ok"]
  /\ fresh' = [fresh EXCEPT ![s] = <<>>]
  /\ ResetLocals(s)
  /\ UNCHANGED <<scope, spent, confirmvars, classified, computed, chatvars, now, calls, logins, failures, pairUnique, collection, url_auto>>

\* the airdrop update raises
BuyAirdropFail(s) ==
  /\ pc[s] = "airdrop" /\ AirdropDue(fresh[s][1]) /\ failures < MaxFailures
  /\ Raise(s)
  /\ UNCHANGED <<scope, spent, confirmvars, classified, computed, chatvars, now, calls, logins, pairUnique, store, url_auto, user>>

\* the steps in which every store call succeeds
Steps ==
  \/ Tick
  \/ \E s \in Sessions : Login(s)
  \/ \E s \in Sessions : AutoLogin(s)
  \/ \E s \in Sessions : LoginAirdrop(s)
  \/ \E s \in Sessions : Logout(s)
  \/ \E s \in Sessions : Reload(s)
  \/ \E s \in Sessions : \E mt \in Tiers : \E sc \in Ids \cup {"none"} : HybridBegin(s, mt, sc)
  \/ \E s \in Sessions : \E c \in Ids : LegacyBegin(s, c)
  \/ \E s \in Sessions : Debit(s)
  \/ \E s \in Sessions : Insert(s)
  \/ \E s \in Sessions : ScoreRead(s)
  \/ \E s \in Sessions : ScoreWrite(s)
  \/ \E s \in Sessions : Fresh(s)
  \/ \E s \in Sessions : BuyAirdrop(s)

\* the steps in which a store call fails
Failures ==
  \/ \E s \in Sessions : LoginAirdropFail(s)
  \/ \E s \in Sessions : \E mt \in Tiers : \E sc \in Ids \cup {"none"} : HybridBeginFail(s, mt, sc)
  \/ \E s \in Sessions : \E c \in Ids : LegacyBeginFail(s, c)
  \/ \E s \in Sessions : DebitFail(s)
  \/ \E s \in Sessions : InsertFail(s)
  \/ \E s \in Sessions : ScoreFail(s)
  \/ \E s \in Sessions : FreshFail(s)
  \/ \E s \in Sessions : BuyAirdropFail(s)

\* two sessions of the user; the only store call that fails is the insert a
\* keyed table refuses
Next ==
  \/ Steps
  \/ \E s \in Sessions : InsertDuplicate(s)

Spec == Init /\ [][Next]_vars

\* one session alone; up to MaxFailures store calls fail
SoloNext ==
  \/ Steps
  \/ Failures

SpecSolo == InitSolo /\ [][SoloNext]_vars

\* ───────────── chat: reveal and bond XP ─────────────
MAX_TOKENS  == 10000
ReplyTokens == 120    \* prompt and completion tokens of a short exchange

MaxRuns      == 2     \* script runs of the Chat page
MaxChatCalls == 2     \* purchases before and between them

\* lengths of the chat input, around the quality bonus threshold of 20
MsgLens == {20, 21}

\* bond_xp of the user's row at the start: a user of 0, 99, 299, 599 or 999
\* long messages, so that the awards of a few runs cross each level threshold
StartXPs == {0, 495, 1495, 2995, 4995}

\* the last branch of the table left out
get_bond_level_info_NoTop(bond_xp) ==
  IF bond_xp < 500 THEN [level |-> 1, title |-> "Bond Newbie"]
  ELSE IF bond_xp < 1500 THEN [level |-> 2, title |-> "Heart Hacker"]
  ELSE IF bond_xp < 3000 THEN [level |-> 3, title |-> "Soul Syncer"]
  ELSE IF bond_xp < 5000 THEN [level |-> 4, title |-> "Bond Virtuoso"]
  ELSE [level |-> 1, title |-> "Bond Newbie"]

get_bond_level_info(bond_xp) ==
  IF bond_xp < 500 THEN [level |-> 1, title |-> "Bond Newbie"]
  ELSE IF bond_xp < 1500 THEN [level |-> 2, title |-> "Heart Hacker"]
  ELSE IF bond_xp < 3000 THEN [level |-> 3, title |-> "Soul Syncer"]
  ELSE IF bond_xp < 5000 THEN [level |-> 4, title |-> "Bond Virtuoso"]
  ELSE [level |-> 5, title |-> "Love Legend"]

\* award_chat_xp, lines 1231-1237
total_xp(message_length) ==
  1 + (IF message_length > 20 THEN 4 ELSE 0)

expected_rarity_for_tier ==
  [t \in Tiers |->
     CASE t = "Basic Bond"   -> "Common"
       [] t = "Premium Bond" -> "Rare"
       [] t = "Elite Bond"   -> "Legendary"]

rarity_hierarchy == [Common |-> 1, Rare |-> 2, Legendary |-> 3]

\* the comparison made on the tier of the companion's stats (Premium from 300)
calculate_mystery_reveal_tier_ByTier(companion, purchased_tier) ==
  LET actual_rarity == get_actual_rarity(companion)
      actual_level ==
        rarity_hierarchy[expected_rarity_for_tier[get_mystery_tier_from_companion(companion)]]
      expected_level == rarity_hierarchy[expected_rarity_for_tier[purchased_tier]]
  IN  [actual_tier |-> get_mystery_tier_from_companion(companion),
       actual_rarity |-> actual_rarity,
       surprise_factor |-> IF actual_level > expected_level THEN "upgrade"
                           ELSE IF actual_level = expected_level THEN "expected"
                           ELSE "downgrade",
       stat_total |-> companion.total_stats]

calculate_mystery_reveal_tier(companion, purchased_tier) ==
  LET actual_rarity == get_actual_rarity(companion)
      actual_level == rarity_hierarchy[actual_rarity]
      expected_level == rarity_hierarchy[expected_rarity_for_tier[purchased_tier]]
  IN  [actual_tier |-> get_mystery_tier_from_companion(companion),
       actual_rarity |-> actual_rarity,
       surprise_factor |-> IF actual_level > expected_level THEN "upgrade"
                           ELSE IF actual_level = expected_level THEN "expected"
                           ELSE "downgrade",
       stat_total |-> companion.total_stats]

\* the user row of a user who has chatted before
InitChat ==
  /\ InitSessions
  /\ Confirmed
  /\ pairUnique = FALSE
  /\ \E xp \in StartXPs :
       users = [NewUserRow EXCEPT !.bond_xp = xp,
                                  !.bond_level = get_bond_level_info(xp).level,
                                  !.bond_title = get_bond_level_info(xp).title]
  /\ scope = [sessions |-> {"s1"}, calls |-> MaxChatCalls, logins |-> 1, runs |-> MaxRuns,
              usage |-> {ReplyTokens}]

\* the rows of table collection for the user and one companion
RowsFor(cid) == {r \in BagToSet(collection) : r.companion_id = cid}

\* lines 573-577: "revealed" of every row of the pair becomes true
MarkRevealed_Nothing(cid) == collection

MarkRevealed_All(cid) ==
  LET rows == BagToSet(collection)
      flip(r) == [r EXCEPT !.revealed = <<TRUE>>]
  IN  [q \in {flip(r) : r \in rows} |->
         SumFn([r \in {x \in rows : flip(x) = q} |-> collection[r]])]

MarkRevealed(cid) ==
  LET rows == BagToSet(collection)
      flip(r) == IF r.companion_id = cid THEN [r EXCEPT !.revealed = <<TRUE>>] ELSE r
  IN  [q \in {flip(r) : r \in rows} |->
         SumFn([r \in {x \in rows : flip(x) = q} |-> collection[r]])]

\* where a run of the Chat page goes after the reveal check: to the chat input
\* (lines 2468-2474) when there is one and the budget is not used up
BudgetHit_Above(s) == spent[s] > MAX_TOKENS

\* line 2468
BudgetHit(s) == spent[s] >= MAX_TOKENS

AfterReveal(s, inp) == IF inp = <<>> \/ BudgetHit(s) THEN "idle" ELSE "completion"

\* a script run of the Chat page for an owned companion (lines 2398-2411), with
\* or without a chat input; is_companion_revealed reads the first row of the pair
ChatBegin(s, cid, inp) ==
  /\ pc[s] = "idle" /\ runs < scope.runs
  /\ cid \in collection_set
  /\ runs' = runs + 1
  /\ chat_cid' = [chat_cid EXCEPT ![s] = cid]
  /\ input' = [input EXCEPT ![s] = inp]
  /\ reveal_info' = [reveal_info EXCEPT ![s] = <<>>]
  /\ xp_earned' = [xp_earned EXCEPT ![s] = 0]
  /\ \E r \in RowsFor(cid) :
       pc' = [pc EXCEPT ![s] = IF r.revealed = <<TRUE>> THEN AfterReveal(s, inp)
                                ELSE "reveal_update"]
  /\ UNCHANGED <<scope, spent, confirmvars, classified, computed, now, failures, calls, logins, pairUnique, store, url_auto, user, fresh,
                 locals, outcome, companion_stats_revealed, companion_bonds, messages,
                 info_tier, old_xp, updated_user>>

\* lines 486-487: the select raises and the companion counts as revealed
ChatBeginFail(s, cid, inp) ==
  /\ pc[s] = "idle" /\ runs < scope.runs /\ failures < MaxFailures
  /\ cid \in collection_set
  /\ runs' = runs + 1
  /\ failures' = failures + 1
  /\ chat_cid' = [chat_cid EXCEPT ![s] = cid]
  /\ input' = [input EXCEPT ![s] = inp]
  /\ reveal_info' = [reveal_info EXCEPT ![s] = <<>>]
  /\ xp_earned' = [xp_earned EXCEPT ![s] = 0]
  /\ pc' = [pc EXCEPT ![s] = AfterReveal(s, inp)]
  /\ UNCHANGED <<scope, spent, confirmvars, classified, computed, now, calls, logins, pairUnique, store, url_auto, user, fresh,
                 locals, outcome, companion_stats_revealed, companion_bonds, messages,
                 info_tier, old_xp, updated_user>>

\* reveal_companion_stats, lines 573-577
RevealUpdate(s) ==
  /\ pc[s] = "reveal_update"
  /\ collection' = MarkRevealed(chat_cid[s])
  /\ pc' = [pc EXCEPT ![s] = "reveal_select"]
  /\ UNCHANGED <<scope, spent, confirmvars, classified, computed, now, failures, calls, logins, pairUnique, users, url_auto, user, fresh,
                 locals, outcome, runs, companion_stats_revealed, companion_bonds, messages,
                 chat_cid, input, reveal_info, info_tier, old_xp, updated_user, xp_earned>>

\* lines 580-584: mystery_tier of the first row of the pair
RevealSelect(s) ==
  /\ pc[s] = "reveal_select"
  /\ \E r \in RowsFor(chat_cid[s]) :
       info_tier' = [info_tier EXCEPT ![s] = r.mystery_tier]
  /\ pc' = [pc EXCEPT ![s] = "reveal_insert"]
  /\ UNCHANGED <<scope, spent, confirmvars, classified, computed, now, failures, calls, logins, pairUnique, store, url_auto, user, fresh,
                 locals, outcome, runs, companion_stats_revealed, companion_bonds, messages,
                 chat_cid, input, reveal_info, old_xp, updated_user, xp_earned>>

\* the row of lines 590-597; actual_rarity is the catalog's rarity field
RevealRecord(s) ==
  LET companion == CID2COMP[chat_cid[s]]
      info == calculate_mystery_reveal_tier(companion, info_tier[s][1])
  IN  [companion_id |-> chat_cid[s],
       original_tier |-> info_tier[s][1],
       actual_rarity |-> companion.rarity,
       stat_total |-> info.stat_total,
       surprise_factor |-> info.surprise_factor]

\* lines 586-599: the analytics row, and the reveal info for the animation
RevealInsert(s) ==
  /\ pc[s] = "reveal_insert" /\ info_tier[s] # <<>>
  /\ companion_stats_revealed' = companion_stats_revealed (+) SetToBag({RevealRecord(s)})
  /\ reveal_info' = [reveal_info EXCEPT ![s] =
       <<calculate_mystery_reveal_tier(CID2COMP[chat_cid[s]], info_tier[s][1])>>]
  /\ info_tier' = [info_tier EXCEPT ![s] = <<>>]
  /\ pc' = [pc EXCEPT ![s] = AfterReveal(s, input[s])]
  /\ UNCHANGED <<scope, spent, confirmvars, classified, computed, now, failures, calls, logins, pairUnique, store, url_auto, user, fresh,
                 locals, outcome, runs, companion_bonds, messages, chat_cid, input, old_xp, updated_user,
                 xp_earned>>

\* lines 601-603: a store call of the reveal raises, or the row has no tier
\* (line 587 raises KeyError): logged, None returned
RevealFail(s) ==
  /\ \/ pc[s] \in {"reveal_update", "reveal_select", "reveal_insert"}
           /\ failures < MaxFailures /\ failures' = failures + 1
     \/ pc[s] = "reveal_insert" /\ info_tier[s] = <<>> /\ failures' = failures
  /\ reveal_info' = [reveal_info EXCEPT ![s] = <<>>]
  /\ info_tier' = [info_tier EXCEPT ![s] = <<>>]
  /\ pc' = [pc EXCEPT ![s] = AfterReveal(s, input[s])]
  /\ UNCHANGED <<scope, spent, confirmvars, classified, computed, now, calls, logins, pairUnique, store, url_auto, user, fresh,
                 locals, outcome, runs, companion_stats_revealed, companion_bonds, messages,
                 chat_cid, input, old_xp, updated_user, xp_earned>>

\* lines 2474-2484: the completion of the chat input
Completion(s) ==
  /\ pc[s] = "completion"
  /\ \E usage \in scope.usage : spent' = [spent EXCEPT ![s] = @ + usage]
  /\ pc' = [pc EXCEPT ![s] = "xp_read"]
  /\ UNCHANGED <<scope, confirmvars, classified, computed, now, failures, calls, logins, pairUnique, store, url_auto, user, fresh,
                 locals, outcome, chatvars>>

\* lines 2509-2512: RateLimitError or OpenAIError, nothing awarded or stored
CompletionFail(s) ==
  /\ pc[s] = "completion" /\ failures < MaxFailures
  /\ failures' = failures + 1
  /\ pc' = [pc EXCEPT ![s] = "idle"]
  /\ UNCHANGED <<scope, spent, confirmvars, classified, computed, now, calls, logins, pairUnique, store, url_auto, user, fresh,
                 locals, outcome, chatvars>>

\* update_user_bond_xp, lines 1203-1209: the row read
XpRead(s) ==
  /\ pc[s] = "xp_read"
  /\ old_xp' = [old_xp EXCEPT ![s] = users.bond_xp]
  /\ pc' = [pc EXCEPT ![s] = "xp_write"]
  /\ UNCHANGED <<scope, spent, confirmvars, classified, computed, now, failures, calls, logins, pairUnique, store, url_auto, user, fresh,
                 locals, outcome, runs, companion_stats_revealed, companion_bonds, messages,
                 chat_cid, input, reveal_info, info_tier, xp_earned, updated_user>>

\* the level and the title of the XP read, not of the XP written
XpWrite_StaleLevel(s) ==
  /\ pc[s] = "xp_write"
  /\ LET new_xp == old_xp[s] + total_xp(input[s][1])
     IN  users' = [users EXCEPT !.bond_xp = new_xp,
                                !.bond_level = get_bond_level_info(old_xp[s]).level,
                                !.bond_title = get_bond_level_info(old_xp[s]).title]
  /\ updated_user' = [updated_user EXCEPT ![s] = <<[bond_xp |-> users'.bond_xp]>>]
  /\ pc' = [pc EXCEPT ![s] = "bonds"]
  /\ UNCHANGED <<scope, spent, confirmvars, classified, computed, now, failures, calls, logins, pairUnique, collection, url_auto, user,
                 fresh, locals, outcome, runs, companion_stats_revealed,
                 companion_bonds, messages, chat_cid, input, reveal_info, info_tier,
                 old_xp, xp_earned>>

\* lines 1209-1219: new_xp, its level and title, written together
XpWrite(s) ==
  /\ pc[s] = "xp_write"
  /\ LET new_xp == old_xp[s] + total_xp(input[s][1])
     IN  users' = [users EXCEPT !.bond_xp = new_xp,
                                !.bond_level = get_bond_level_info(new_xp).level,
                                !.bond_title = get_bond_level_info(new_xp).title]
  /\ updated_user' = [updated_user EXCEPT ![s] = <<[bond_xp |-> users'.bond_xp]>>]
  /\ pc' = [pc EXCEPT ![s] = "bonds"]
  /\ UNCHANGED <<scope, spent, confirmvars, classified, computed, now, failures, calls, logins, pairUnique, collection, url_auto, user,
                 fresh, locals, outcome, runs, companion_stats_revealed,
                 companion_bonds, messages, chat_cid, input, reveal_info, info_tier,
                 old_xp, xp_earned>>

\* lines 1204-1206 and 1223-1225: no row, or the read or the update raises;
\* update_user_bond_xp returns None and award_chat_xp goes on
XpFail(s) ==
  /\ pc[s] \in {"xp_read", "xp_write"} /\ failures < MaxFailures
  /\ failures' = failures + 1
  /\ updated_user' = [updated_user EXCEPT ![s] = <<>>]
  /\ pc' = [pc EXCEPT ![s] = "bonds"]
  /\ UNCHANGED <<scope, spent, confirmvars, classified, computed, now, calls, logins, pairUnique, store, url_auto, user, fresh,
                 locals, outcome, runs, companion_stats_revealed,
                 companion_bonds, messages, chat_cid, input, reveal_info, info_tier,
                 old_xp, xp_earned>>

\* lines 1242-1261: the bond row of the companion, updated or created, and the
\* amount returned
Bonds(s) ==
  /\ pc[s] = "bonds"
  /\ LET cid == chat_cid[s]
         xp == total_xp(input[s][1])
     IN  companion_bonds' = [companion_bonds EXCEPT ![cid] =
           IF @ = <<>> THEN <<[messages_sent |-> 1, total_xp_earned |-> xp]>>
           ELSE <<[messages_sent |-> @[1].messages_sent + 1,
                   total_xp_earned |-> @[1].total_xp_earned + xp]>>]
  /\ xp_earned' = [xp_earned EXCEPT ![s] = total_xp(input[s][1])]
  /\ updated_user' = [updated_user EXCEPT ![s] = <<>>]
  /\ pc' = [pc EXCEPT ![s] = "messages"]
  /\ UNCHANGED <<scope, spent, confirmvars, classified, computed, now, failures, calls, logins, pairUnique, store, url_auto, user, fresh,
                 locals, outcome, runs, companion_stats_revealed, messages, chat_cid, input,
                 reveal_info, info_tier, old_xp>>

\* lines 1263-1265: the insert of the bond row raises too, 0 returned
BondsFail(s) ==
  /\ pc[s] = "bonds" /\ failures < MaxFailures
  /\ failures' = failures + 1
  /\ xp_earned' = [xp_earned EXCEPT ![s] = 0]
  /\ updated_user' = [updated_user EXCEPT ![s] = <<>>]
  /\ pc' = [pc EXCEPT ![s] = "messages"]
  /\ UNCHANGED <<scope, spent, confirmvars, classified, computed, now, calls, logins, pairUnique, store, url_auto, user, fresh,
                 locals, outcome, runs, companion_stats_revealed, companion_bonds, messages,
                 chat_cid, input, reveal_info, info_tier, old_xp>>

\* lines 2489-2500: the user's message and the reply are stored
Messages(s) ==
  /\ pc[s] = "messages"
  /\ messages' = messages + 2
  /\ pc' = [pc EXCEPT ![s] = "refresh"]
  /\ UNCHANGED <<scope, spent, confirmvars, classified, computed, now, failures, calls, logins, pairUnique, store, url_auto, user, fresh,
                 locals, outcome, runs, companion_stats_revealed, companion_bonds, chat_cid,
                 input, reveal_info, info_tier, old_xp, updated_user, xp_earned>>

\* an insert of lines 2489-2500 raises: the script run ends
MessagesFail(s) ==
  /\ pc[s] = "messages" /\ failures < MaxFailures
  /\ failures' = failures + 1
  /\ pc' = [pc EXCEPT ![s] = "idle"]
  /\ UNCHANGED <<scope, spent, confirmvars, classified, computed, now, calls, logins, pairUnique, store, url_auto, user, fresh,
                 locals, outcome, chatvars>>

\* lines 2503-2508: with XP earned the session's copy of the row is read again
Refresh(s) ==
  /\ pc[s] = "refresh"
  /\ user' = [user EXCEPT ![s] = IF xp_earned[s] > 0 THEN <<Wallet(users)>> ELSE @]
  /\ pc' = [pc EXCEPT ![s] = "idle"]
  /\ UNCHANGED <<scope, spent, confirmvars, classified, computed, now, failures, calls, logins, pairUnique, store, url_auto, fresh,
                 locals, outcome, chatvars>>

\* the steps of the Chat page in which every call succeeds
ChatSteps ==
  \/ \E s \in Sessions : \E cid \in Ids : \E inp \in {<<>>} \cup {<<n>> : n \in MsgLens} :
       ChatBegin(s, cid, inp)
  \/ \E s \in Sessions : RevealUpdate(s)
  \/ \E s \in Sessions : RevealSelect(s)
  \/ \E s \in Sessions : RevealInsert(s)
  \/ \E s \in Sessions : Completion(s)
  \/ \E s \in Sessions : XpRead(s)
  \/ \E s \in Sessions : XpWrite(s)
  \/ \E s \in Sessions : Bonds(s)
  \/ \E s \in Sessions : Messages(s)
  \/ \E s \in Sessions : Refresh(s)

\* the steps of the Chat page in which a call fails
ChatFailures ==
  \/ \E s \in Sessions : \E cid \in Ids : \E inp \in {<<>>} \cup {<<n>> : n \in MsgLens} :
       ChatBeginFail(s, cid, inp)
  \/ \E s \in Sessions : RevealFail(s)
  \/ \E s \in Sessions : CompletionFail(s)
  \/ \E s \in Sessions : XpFail(s)
  \/ \E s \in Sessions : BondsFail(s)
  \/ \E s \in Sessions : MessagesFail(s)

\* the purchases of the Find matches page (lines 2319-2388), every call succeeding
ShopSteps ==
  \/ \E s \in Sessions : Login(s)
  \/ \E s \in Sessions : LoginAirdrop(s)
  \/ \E s \in Sessions : \E mt \in Tiers : \E sc \in Ids \cup {"none"} : HybridBegin(s, mt, sc)
  \/ \E s \in Sessions : Debit(s)
  \/ \E s \in Sessions : Insert(s)
  \/ \E s \in Sessions : ScoreRead(s)
  \/ \E s \in Sessions : ScoreWrite(s)
  \/ \E s \in Sessions : Fresh(s)
  \/ \E s \in Sessions : BuyAirdrop(s)

\* one session that buys and chats; up to MaxFailures calls of the Chat page fail
ChatNext ==
  \/ ShopSteps
  \/ ChatSteps
  \/ ChatFailures

SpecChat == InitChat /\ [][ChatNext]_vars

\* ───────────── two sessions of the user on the Chat page ─────────────
MaxRaceRuns  == 2     \* script runs of the Chat page, of both sessions together
MaxRaceCalls == 1     \* purchases before them

InitRace ==
  /\ InitSessions
  /\ Confirmed
  /\ pairUnique = FALSE
  /\ \E xp \in StartXPs :
       users = [NewUserRow EXCEPT !.bond_xp = xp,
                                  !.bond_level = get_bond_level_info(xp).level,
                                  !.bond_title = get_bond_level_info(xp).title]
  /\ scope = [sessions |-> Sessions, calls |-> MaxRaceCalls, logins |-> 2,
              runs |-> MaxRaceRuns, usage |-> {ReplyTokens}]

\* the requests of the two sessions interleave at every call of the store; every
\* call succeeds
RaceNext ==
  \/ ShopSteps
  \/ ChatSteps

SpecRace == InitRace /\ [][RaceNext]_vars

\* ───────────── one session and its token budget ─────────────
MaxBudgetRuns  == 3   \* script runs of the Chat page
MaxBudgetCalls == 1   \* purchases before them

\* a new user; a completion uses the tokens of a short exchange or, with a long
\* history as its prompt, as many as the whole budget
InitBudget ==
  /\ InitState
  /\ pairUnique = FALSE
  /\ scope = [sessions |-> {"s1"}, calls |-> MaxBudgetCalls, logins |-> 2,
              runs |-> MaxBudgetRuns, usage |-> {ReplyTokens, MAX_TOKENS}]

\* the session buys, chats, and is started again by a reload of the page
BudgetNext ==
  \/ ShopSteps
  \/ ChatSteps
  \/ \E s \in Sessions : Reload(s)
  \/ \E s \in Sessions : AutoLogin(s)

SpecBudget == InitBudget /\ [][BudgetNext]_vars

\* ───────────── the e-mail confirmation link ─────────────
MaxVisits          == 3   \* visits of the link
MaxConfirmFailures == 2   \* store calls of the visits that fail

\* the addresses of two invitees, in lower case, as strings of characters
Emails == { <<"j", "_", "d">>, <<"j", "a", "d">> }

\* value ILIKE pattern, on lower-case strings without "%": "_" in the pattern
\* stands for any one character
ilike(value, pattern) ==
  /\ Len(value) = Len(pattern)
  /\ \A k \in 1..Len(pattern) : pattern[k] = "_" \/ pattern[k] = value[k]

\* create_pending_signup, lines 1034-1040: the row of a signup made at time t
PendingRow(email, t) ==
  [email |-> email, username |-> email, created_at |-> t, expires_at |-> t + Day]

\* get_pending_signup, lines 1051-1057: the rows that match and have not
\* expired, the newest first, at most one
get_pending_signup(email) ==
  LET rows == {r \in pending_signups : ilike(r.email, email) /\ r.expires_at >= now}
  IN  {r \in rows : \A q \in rows : q.created_at <= r.created_at}

\* the link of a user who has no row; each invitee has signed up, yesterday or
\* today, or has no signup pending
InitConfirm ==
  /\ InitSessions
  /\ pairUnique = FALSE
  /\ users = NewUserRow
  /\ user_rows = 0
  /\ usersKeyed \in BOOLEAN
  /\ \E since \in [Emails -> {-1, 0, 1}] :
       pending_signups = {PendingRow(e, since[e]) : e \in {x \in Emails : since[x] <= 0}}
  /\ \E e \in Emails :
       confirm = [pc |-> "idle", email |-> e, visits |-> 0, pending |-> <<>>]
  /\ scope = [sessions |-> {"s1"}, calls |-> 0, logins |-> 1, runs |-> 0, usage |-> {}]

ConfirmFrame ==
  UNCHANGED <<scope, spent, classified, computed, chatvars, now, calls, logins, pairUnique,
              collection, pc, url_auto, user, fresh, locals, outcome, usersKeyed>>

\* lines 1516-1521: a visit of the link looks for the user's row
ConfirmBegin ==
  /\ confirm.pc = "idle" /\ confirm.visits < MaxVisits
  /\ confirm' = [confirm EXCEPT !.visits = @ + 1,
                                !.pc = IF user_rows > 0 THEN "idle" ELSE "pending"]
  /\ UNCHANGED <<failures, users, user_rows, pending_signups>>
  /\ ConfirmFrame

\* lines 1024-1026: the select raises and get_user_row returns None
ConfirmBeginFail ==
  /\ confirm.pc = "idle" /\ confirm.visits < MaxVisits
  /\ failures < MaxConfirmFailures
  /\ failures' = failures + 1
  /\ confirm' = [confirm EXCEPT !.visits = @ + 1, !.pc = "pending"]
  /\ UNCHANGED <<users, user_rows, pending_signups>>
  /\ ConfirmFrame

\* lines 1523-1526 and 1543-1546: the pending signup, or the link has expired
ConfirmPending ==
  /\ confirm.pc = "pending"
  /\ IF get_pending_signup(confirm.email) = {}
     THEN confirm' = [confirm EXCEPT !.pc = "idle"]
     ELSE \E r \in get_pending_signup(confirm.email) :
            confirm' = [confirm EXCEPT !.pc = "create", !.pending = <<r>>]
  /\ UNCHANGED <<failures, users, user_rows, pending_signups>>
  /\ ConfirmFrame

\* lines 1058-1060: the select raises and get_pending_signup returns None
ConfirmPendingFail ==
  /\ confirm.pc = "pending"
  /\ failures < MaxConfirmFailures
  /\ failures' = failures + 1
  /\ confirm' = [confirm EXCEPT !.pc = "idle"]
  /\ UNCHANGED <<users, user_rows, pending_signups>>
  /\ ConfirmFrame

\* create_user_row, lines 1469-1483; of two rows of one id a select returns
\* either first
ConfirmCreate ==
  /\ confirm.pc = "create"
  /\ ~(usersKeyed /\ user_rows > 0)
  /\ user_rows' = user_rows + 1
  /\ users' \in IF user_rows = 0 THEN {NewUserRow} ELSE {users, NewUserRow}
  /\ confirm' = [confirm EXCEPT !.pc = "cleanup"]
  /\ UNCHANGED <<failures, pending_signups>>
  /\ ConfirmFrame

\* a keyed table refuses the second row of the id: the insert raises (lines
\* 1486-1488 and 1561-1563)
ConfirmCreateDuplicate ==
  /\ confirm.pc = "create"
  /\ usersKeyed /\ user_rows > 0
  /\ confirm' = [confirm EXCEPT !.pc = "idle", !.pending = <<>>]
  /\ UNCHANGED <<failures, users, user_rows, pending_signups>>
  /\ ConfirmFrame

\* the insert raises
ConfirmCreateFail ==
  /\ confirm.pc = "create"
  /\ failures < MaxConfirmFailures
  /\ failures' = failures + 1
  /\ confirm' = [confirm EXCEPT !.pc = "idle", !.pending = <<>>]
  /\ UNCHANGED <<users, user_rows, pending_signups>>
  /\ ConfirmFrame

\* cleanup_pending_signup, lines 1062-1067: the rows that match are deleted
ConfirmCleanup ==
  /\ confirm.pc = "cleanup"
  /\ pending_signups' = {r \in pending_signups : ~ilike(r.email, confirm.email)}
  /\ confirm' = [confirm EXCEPT !.pc = "idle", !.pending = <<>>]
  /\ UNCHANGED <<failures, users, user_rows>>
  /\ ConfirmFrame

\* lines 1068-1069: the delete raises, which is logged
ConfirmCleanupFail ==
  /\ confirm.pc = "cleanup"
  /\ failures < MaxConfirmFailures
  /\ failures' = failures + 1
  /\ confirm' = [confirm EXCEPT !.pc = "idle", !.pending = <<>>]
  /\ UNCHANGED <<users, user_rows, pending_signups>>
  /\ ConfirmFrame

\* the visits of the link, one at a time, and the user's sign-in with its
\* daily airdrop between them
ConfirmNext ==
  \/ Tick
  \/ \E s \in Sessions : Login(s)
  \/ \E s \in Sessions : LoginAirdrop(s)
  \/ ConfirmBegin
  \/ ConfirmBeginFail
  \/ ConfirmPending
  \/ ConfirmPendingFail
  \/ ConfirmCreate
  \/ ConfirmCreateDuplicate
  \/ ConfirmCreateFail
  \/ ConfirmCleanup
  \/ ConfirmCleanupFail

SpecConfirm == InitConfirm /\ [][ConfirmNext]_vars

\* ───────────── the rarity classifier on every total ─────────────
MaxTotal == 450       \* totals 0..MaxTotal (five stats)

InitClassify ==
  /\ InitState
  /\ pairUnique = FALSE
  /\ scope = [sessions |-> {}, calls |-> 0, logins |-> 0, runs |-> 0, usage |-> {}]

\* get_actual_rarity on a companion of the given total
Classify(total) ==
  /\ classified' = <<[total_stats |-> total,
                      rarity |-> get_actual_rarity([total_stats |-> total])]>>
  /\ UNCHANGED <<scope, spent, confirmvars, computed, now, failures, calls, logins, pairUnique, store, pc, url_auto,
                 user, fresh, locals, outcome, chatvars>>

ClassifyNext == \E total \in 0..MaxTotal : Classify(total)

SpecClassify == InitClassify /\ [][ClassifyNext]_vars

\* ───────────── the functions of the catalog on a larger catalog ─────────────
CatalogSize == 15     \* companions of the larger catalog

\* five Legendary companions, five Rare ones, two of them with a stat of 95, and
\* Common ones
BIG_COMPANIONS ==
  { [id |-> k,
     rarity |-> IF k <= 5 THEN "Legendary" ELSE IF k <= 10 THEN "Rare" ELSE "Common",
     total_stats |-> IF k <= 5 THEN 420 ELSE IF k <= 10 THEN 370 ELSE 320,
     stats |->
       IF k <= 5
       THEN [wit |-> 94, empathy |-> 85, creativity |-> 80, knowledge |-> 81, boldness |-> 80]
       ELSE IF k <= 7
       THEN [wit |-> 95, empathy |-> 70, creativity |-> 70, knowledge |-> 65, boldness |-> 70]
       ELSE IF k <= 10
       THEN [wit |-> 75, empathy |-> 75, creativity |-> 75, knowledge |-> 70, boldness |-> 75]
       ELSE [wit |-> 85, empathy |-> 60, creativity |-> 60, knowledge |-> 55, boldness |-> 60]]
    : k \in 1..CatalogSize }

BigIds == {c.id : c \in BIG_COMPANIONS}

BIG_CID2COMP == [i \in BigIds |-> CHOOSE c \in BIG_COMPANIONS : c.id = i]

\* the owned sets tried: any number of the companions of each kind (the score
\* depends on the companions through their stats only)
OwnedSets ==
  { (1..a) \cup (6..(5 + b)) \cup (8..(7 + c)) \cup (11..(10 + d)) :
      a \in 0..5, b \in 0..2, c \in 0..3, d \in 0..(CatalogSize - 10) }

InitCompute ==
  /\ InitState
  /\ pairUnique = FALSE
  /\ scope = [sessions |-> {}, calls |-> 0, logins |-> 0, runs |-> 0, usage |-> {}]

\* calculate_collection_score for a user who owns the given companions
Score(owned) ==
  /\ computed = <<>>
  /\ computed' = <<[call |-> "calculate_collection_score", owned_ids |-> owned,
                    result |-> calculate_collection_score(owned, BIG_CID2COMP)]>>
  /\ UNCHANGED <<scope, spent, confirmvars, classified, now, failures, calls, logins, pairUnique, store, pc, url_auto,
                 user, fresh, locals, outcome, chatvars>>

\* the weighted list roll_mystery_companion draws from, for the companions the
\* user does not own
Roll(mystery_tier, owned) ==
  /\ computed = <<>>
  /\ owned # BigIds
  /\ computed' = <<[call |-> "roll_mystery_companion", mystery_tier |-> mystery_tier,
                    available |-> BigIds \ owned,
                    result |-> weighted_companions(mystery_tier,
                                 {BIG_CID2COMP[i] : i \in BigIds \ owned})]>>
  /\ UNCHANGED <<scope, spent, confirmvars, classified, now, failures, calls, logins, pairUnique, store, pc, url_auto,
                 user, fresh, locals, outcome, chatvars>>

\* calculate_mystery_reveal_tier on a companion of the given total
RevealTier(total, purchased_tier) ==
  /\ computed = <<>>
  /\ computed' = <<[call |-> "calculate_mystery_reveal_tier", total_stats |-> total,
                    purchased_tier |-> purchased_tier,
                    result |-> calculate_mystery_reveal_tier([total_stats |-> total],
                                                             purchased_tier)]>>
  /\ UNCHANGED <<scope, spent, confirmvars, classified, now, failures, calls, logins, pairUnique, store, pc, url_auto,
                 user, fresh, locals, outcome, chatvars>>

ComputeNext ==
  \/ \E owned \in OwnedSets : Score(owned)
  \/ \E mystery_tier \in Tiers : \E owned \in OwnedSets : Roll(mystery_tier, owned)
  \/ \E total \in 0..MaxTotal : \E purchased_tier \in Tiers : RevealTier(total, purchased_tier)

SpecCompute == InitCompute /\ [][ComputeNext]_vars

\* ═════════════ claims ═════════════

\* C1: in a mystery purchase the companion rolled, and then granted, is never
\* one of the ids the user owned when the roll was made.
C1_RollExcludesOwned ==
  \A s \in Sessions :
    kind[s] = "mystery" => chosen[s] \in Ids /\ chosen[s] \notin owned_ids[s]

\* a mystery purchase by a user who already owns a companion has inserted its row
C1_Witness ==
  \E s \in Sessions :
    kind[s] = "mystery" /\ owned_ids[s] # {} /\ pc[s] = "score"

\* C2 as stated: a second purchase of a named companion the user owns returns
\* "Already owned", whatever the balance and the tier price, and the stored
\* balance stays.
C2_SecondAlwaysAlreadyOwned ==
  [][\A s \in Sessions : \A c \in Ids :
       ( /\ c \in collection_set
         /\ \/ HybridBegin(s, get_mystery_tier_from_companion(CID2COMP[c]), c)
            \/ LegacyBegin(s, c) )
       => outcome'[s] = "Already owned" /\ users' = users]_vars

\* C2, amended: a second purchase of a named companion the user owns fails and
\* leaves the store as it is; the message is "Already owned" when the wallet of
\* the session covers the price, and "Not enough" when it does not.
C2_SecondAttemptFails ==
  [][\A s \in Sessions : \A c \in Ids :
       c \in collection_set =>
         /\ HybridBegin(s, get_mystery_tier_from_companion(CID2COMP[c]), c)
              => /\ outcome'[s] =
                      IF user[s][1].tokens
                           >= MYSTERY_COST[get_mystery_tier_from_companion(CID2COMP[c])]
                      THEN "Already owned" ELSE "Not enough"
                 /\ pc'[s] = "idle" /\ store' = store
         /\ LegacyBegin(s, c)
              => /\ outcome'[s] =
                      IF user[s][1].tokens >= COST[CID2COMP[c].rarity]
                      THEN "Already owned" ELSE "Not enough"
                 /\ pc'[s] = "idle" /\ store' = store]_vars

\* a second attempt on an owned companion was answered "Already owned"
C2_Witness ==
  \E s \in Sessions :
    outcome[s] = "Already owned" /\ pc[s] = "idle" /\ collection_set # {}

\* C3: a purchase begun while the stored balance is below the price fails and
\* changes nothing: tokens, rows and score stay and no write follows.  (The claim
\* names the message "Not enough"; this accepts a refusal with any message.)
C3_StoredBalanceChecked ==
  [][\A s \in Sessions :
       /\ \A mt \in Tiers : \A sc \in Ids \cup {"none"} :
            (HybridBegin(s, mt, sc) /\ users.tokens < MYSTERY_COST[mt])
              => outcome'[s] # "running" /\ pc'[s] = "idle" /\ store' = store
       /\ \A c \in Ids :
            (LegacyBegin(s, c) /\ users.tokens < COST[CID2COMP[c].rarity])
              => outcome'[s] # "running" /\ pc'[s] = "idle" /\ store' = store]_vars

\* C4: the user has at most one ownership row for each companion.
C4_OneRowPerPair ==
  \A cid \in Ids : RowsOf(cid) <= 1

\* C5: with every purchase of the two sessions finished and no airdrop granted,
\* the stored balance is the starting balance less the price of every row bought.
C5_BalanceAccountsForPurchases ==
  ( /\ \A s \in Sessions : pc[s] \in {"idle", "out"}
    /\ users.last_airdrop = <<>> )
  => users.tokens = StartTokens -
       SumFn([r \in BagToSet(collection) |->
                CopiesIn(r, collection) *
                  (IF r.mystery_tier = <<>>
                   THEN COST[CID2COMP[r.companion_id].rarity]
                   ELSE MYSTERY_COST[r.mystery_tier[1]])])

\* C6: a purchase that a failing store call ends has committed neither the
\* debit nor the ownership row.
C6_FailureCommitsNothing ==
  [][\A s \in Sessions :
       (outcome[s] = "running" /\ outcome'[s] = "exception")
         => pc[s] \notin {"insert", "score", "score_write", "fresh", "airdrop"}]_vars

\* C7 as stated: a successful mystery purchase at tier t from a wallet of T
\* tokens returns a wallet of exactly T - price(t), and adds exactly one row,
\* revealed = false and mystery_tier = t.
C7_ReturnsBalanceLessPrice ==
  [][\A s \in Sessions :
       kind[s] = "mystery" =>
         /\ Insert(s) =>
              collection' = collection (+) SetToBag({[companion_id |-> chosen[s],
                               revealed |-> <<FALSE>>, mystery_tier |-> <<tier[s]>>]})
         /\ BuyAirdrop(s) =>
              user'[s][1].tokens = user[s][1].tokens - MYSTERY_COST[tier[s]]]_vars

\* C7, amended: a successful mystery purchase at tier t from a wallet of T tokens
\* writes T - price(t) as the stored balance, adds exactly one row, revealed =
\* false and mystery_tier = t, and returns the row read back after these writes,
\* with 150 tokens more when 24 hours have passed since that row's last airdrop
\* (or its creation).
C7_DebitsPriceAndReturnsAirdropped ==
  [][\A s \in Sessions :
       kind[s] = "mystery" =>
         /\ Debit(s) => users'.tokens = user[s][1].tokens - MYSTERY_COST[tier[s]]
         /\ Insert(s) =>
              collection' = collection (+) SetToBag({[companion_id |-> chosen[s],
                               revealed |-> <<FALSE>>, mystery_tier |-> <<tier[s]>>]})
         /\ BuyAirdrop(s) =>
              user'[s][1].tokens =
                fresh[s][1].tokens +
                  (IF now - (IF fresh[s][1].last_airdrop = <<>>
                             THEN fresh[s][1].created_at
                             ELSE fresh[s][1].last_airdrop[1]) >= Day
                   THEN 150 ELSE 0)]_vars

\* a mystery purchase has debited and inserted, and its airdrop is due
C7_Witness ==
  \E s \in Sessions :
    /\ pc[s] = "airdrop" /\ kind[s] = "mystery"
    /\ now - LastAirdrop(fresh[s][1]) >= Day
    /\ users.tokens = user[s][1].tokens - MYSTERY_COST[tier[s]]

\* C8: apply_daily_airdrop on a row whose last grant (or creation, when there
\* was none) is less than 24 hours old changes nothing and returns the row; at
\* 24 hours or more it writes the row's tokens plus 150, once, and last_airdrop
\* = now, and returns that.
C8_AirdropOncePerDay ==
  [][\A s \in Sessions :
       (LoginAirdrop(s) \/ BuyAirdrop(s)) =>
         LET u == fresh[s][1]
             last == IF u.last_airdrop = <<>> THEN u.created_at ELSE u.last_airdrop[1]
         IN  IF now - last < Day
             THEN users' = users /\ user'[s] = <<u>>
             ELSE /\ users'.tokens = u.tokens + 150
                  /\ users'.last_airdrop = <<now>>
                  /\ user'[s][1].tokens = u.tokens + 150
                  /\ user'[s][1].last_airdrop = <<now>>]_vars

\* a sign-in and a Basic purchase on the same day made two calls, one grant
C8_Witness ==
  \E s \in Sessions :
    /\ logins = 1 /\ calls = 1 /\ failures = 0
    /\ pc[s] = "idle" /\ outcome[s] = "ok"
    /\ users.last_airdrop = <<now>>
    /\ users.tokens = StartTokens + DAILY_AIRDROP - MYSTERY_COST["Basic Bond"]

\* C9: a call of apply_daily_airdrop that writes a grant (the row it was given
\* is 24 hours old) finds no grant of the last 24 hours in the stored row,
\* whatever the interleaving of the two sessions' calls.
C9_OneGrantPerWindow ==
  [][\A s \in Sessions :
       ((LoginAirdrop(s) \/ BuyAirdrop(s)) /\ now - LastAirdrop(fresh[s][1]) >= Day)
         => now - LastAirdrop(users) >= Day]_vars

\* C10: the stored balance is an integer that is never negative.
C10_BalanceNeverNegative ==
  users.tokens \in Nat

\* a purchase was refused for lack of tokens while a companion is still unowned
C10_Witness ==
  \E s \in Sessions :
    /\ outcome[s] = "Not enough" /\ collection_set # Ids
    /\ user[s][1].tokens < MYSTERY_COST["Elite Bond"]

\* C11: the rarity of a companion is a function of its total alone: Legendary
\* from 400, Rare from 350 to 399, Common below 350 (349 Common, 350 Rare,
\* 399 Rare, 400 Legendary), the same at every call.
C11_RarityThresholds ==
  classified # <<>> =>
    LET t == classified[1].total_stats
        r == classified[1].rarity
    IN  /\ t \in 0..349 => r = "Common"
        /\ t \in 350..399 => r = "Rare"
        /\ t >= 400 => r = "Legendary"
        /\ r \in {"Common", "Rare", "Legendary"}

\* the classifier has answered for the total 399
C11_Witness ==
  classified # <<>> /\ classified[1].total_stats = 399

\* C12: every rarity the program records for a companion is the one its total
\* gives: the actual_rarity of each reveal analytics row is the stat-derived rarity
\* of the row's companion.
C12_RecordedRarityIsDerived ==
  \A r \in BagToSet(companion_stats_revealed) :
    r.actual_rarity = get_actual_rarity(CID2COMP[r.companion_id])

\* C13: the price a specific purchase debits is the price of the companion's
\* stat-derived rarity: Common 50, Rare 150, Legendary 400.
C13_SpecificPriceByRarity ==
  [][\A s \in Sessions :
       (Debit(s) /\ kind[s] = "specific")
         => user[s][1].tokens - users'.tokens =
              [Common |-> 50, Rare |-> 150, Legendary |-> 400]
                [get_actual_rarity(CID2COMP[chosen[s]])]]_vars

\* C14 as stated: with every companion of the catalog owned, a mystery purchase
\* at any tier returns "No more companions available!" and leaves the store as
\* it is.
C14_AllOwnedAlwaysNoMore ==
  [][\A s \in Sessions : \A mt \in Tiers :
       (HybridBegin(s, mt, "none") /\ collection_set = Ids)
         => outcome'[s] = "No more companions available!" /\ store' = store]_vars

\* C14, amended: with every companion of the catalog owned, a mystery purchase
\* at any tier fails and leaves the store as it is; the message is "No more
\* companions available!" when the wallet of the session covers the price of the
\* tier, and "Not enough" when it does not.
C14_AllOwnedFails ==
  [][\A s \in Sessions : \A mt \in Tiers :
       (HybridBegin(s, mt, "none") /\ collection_set = Ids)
         => /\ outcome'[s] = IF user[s][1].tokens >= MYSTERY_COST[mt]
                             THEN "No more companions available!" ELSE "Not enough"
            /\ pc'[s] = "idle" /\ store' = store]_vars

\* a mystery purchase with every companion owned was answered "No more ..."
C14_Witness ==
  \E s \in Sessions :
    /\ outcome[s] = "No more companions available!"
    /\ collection_set = Ids /\ pc[s] = "idle"

\* C15: the row a specific purchase inserts has revealed = true and the row a
\* mystery roll inserts has revealed = false; a run of the Chat page for a
\* companion whose row is revealed starts no reveal and adds no analytics row.
C15_SpecificBornRevealed ==
  [][\A s \in Sessions :
       /\ (Insert(s) /\ kind[s] \in {"specific", "mystery"})
            => /\ BagCardinality(collection') = BagCardinality(collection) + 1
               /\ \E r \in BagToSet(collection') :
                    /\ CopiesIn(r, collection') = CopiesIn(r, collection) + 1
                    /\ r.companion_id = chosen[s]
                    /\ r.revealed = <<kind[s] = "specific">>
       /\ \A cid \in Ids : \A inp \in {<<>>} \cup {<<n>> : n \in MsgLens} :
            ( /\ ChatBegin(s, cid, inp)
              /\ \A r \in BagToSet(collection) :
                   r.companion_id = cid => r.revealed = <<TRUE>> )
            => /\ pc'[s] \notin {"reveal_update", "reveal_select", "reveal_insert"}
               /\ reveal_info'[s] = <<>>
               /\ companion_stats_revealed' = companion_stats_revealed
               /\ collection' = collection
       /\ companion_stats_revealed' # companion_stats_revealed
            => \E t \in Sessions : pc[t] = "reveal_insert"]_vars

\* with no call failed, a run of the Chat page has ended for a companion whose
\* row is revealed and has no analytics row: the row of a specific purchase
C15_Witness ==
  \E s \in Sessions :
    /\ failures = 0 /\ pc[s] = "idle" /\ chat_cid[s] \in Ids
    /\ \A r \in BagToSet(collection) :
         r.companion_id = chat_cid[s] => r.revealed = <<TRUE>>
    /\ \A a \in BagToSet(companion_stats_revealed) : a.companion_id # chat_cid[s]

C17_RevealFiresOnce ==
  [][\A s \in Sessions :
       /\ ( /\ pc[s] \in {"reveal_select", "reveal_insert"}
            /\ pc'[s] \notin {"reveal_select", "reveal_insert"} )
            => /\ reveal_info'[s] # <<>>
               /\ reveal_info'[s][1].surprise_factor \in {"upgrade", "expected", "downgrade"}
               /\ BagCardinality(companion_stats_revealed')
                    = BagCardinality(companion_stats_revealed) + 1
       /\ \A cid \in Ids : \A inp \in {<<>>} \cup {<<n>> : n \in MsgLens} :
            ( /\ ChatBegin(s, cid, inp)
              /\ \A r \in BagToSet(collection) :
                   r.companion_id = cid => r.revealed = <<TRUE>> )
            => /\ reveal_info'[s] = <<>>
               /\ pc'[s] \notin {"reveal_update", "reveal_select", "reveal_insert"}]_vars

\* C18: the steps of the reveal leave the user's row (tokens, bond_xp,
\* collection score) as it is, and the collection rows too, apart from the
\* revealed flag of the rows of the companion of the chat.
C18_RevealFrame ==
  [][\A s \in Sessions :
       (pc[s] \in {"reveal_update", "reveal_select", "reveal_insert"} /\ pc'[s] # pc[s])
         => /\ users' = users
            /\ \A r \in BagToSet(collection) \cup BagToSet(collection') :
                 r.companion_id # chat_cid[s]
                   => CopiesIn(r, collection') = CopiesIn(r, collection)
            /\ \A t \in {r.mystery_tier : r \in BagToSet(collection) \cup BagToSet(collection')} :
                 LET n(B) == SumFn([r \in {q \in BagToSet(B) :
                                              q.companion_id = chat_cid[s] /\ q.mystery_tier = t}
                                       |-> CopiesIn(r, B)])
                 IN  n(collection') = n(collection)]_vars

\* a reveal has run to its end while another row of the user is still hidden
C18_Witness ==
  \E s \in Sessions :
    /\ reveal_info[s] # <<>>
    /\ \E r \in BagToSet(collection) :
         r.companion_id # chat_cid[s] /\ r.revealed = <<FALSE>>

\* C19: the XP of a chat message is 1 for a length of 20 or less and 5 for a
\* longer one (20 gives 1, 21 gives 5); that amount is what award_chat_xp
\* returns, and bond_xp has grown by it when update_user_bond_xp is over.
C19_XpByLength ==
  [][\A s \in Sessions :
       LET amount == IF input[s][1] <= 20 THEN 1 ELSE 5
       IN  /\ (pc[s] \in {"xp_read", "xp_write"} /\ pc'[s] = "bonds")
                => users'.bond_xp = users.bond_xp + amount
           /\ Bonds(s) => xp_earned'[s] = amount]_vars

\* C20: bond_level never decreases, is 5 whenever bond_xp is 5000 or more, and
\* bond_title is the title of bond_level in the table.
C20_LevelMonotone ==
  [][LET title == [l \in 1..5 |->
                     CASE l = 1 -> "Bond Newbie"
                       [] l = 2 -> "Heart Hacker"
                       [] l = 3 -> "Soul Syncer"
                       [] l = 4 -> "Bond Virtuoso"
                       [] l = 5 -> "Love Legend"]
     IN  /\ users'.bond_level >= users.bond_level
         /\ users.bond_level \in 1..5 /\ users'.bond_level \in 1..5
         /\ users.bond_title = title[users.bond_level]
         /\ users'.bond_title = title[users'.bond_level]
         /\ users.bond_xp >= 5000 => users.bond_level = 5 /\ users'.bond_level = 5
         /\ users'.bond_xp >= 5000 => users'.bond_level = 5
         /\ (users.bond_level < 2 /\ users'.bond_xp >= 500) => users'.bond_level >= 2
         /\ (users.bond_level < 3 /\ users'.bond_xp >= 1500) => users'.bond_level >= 3
         /\ (users.bond_level < 4 /\ users'.bond_xp >= 3000) => users'.bond_level >= 4]_vars

\* the user has passed 5000 XP and an award later is at level 5
C20_Witness ==
  users.bond_xp > 5000 /\ users.bond_level = 5 /\ users.bond_title = "Love Legend"

\* C21: in every state the persisted bond_level and bond_title are the level
\* table's values for the persisted bond_xp, from the new row on and after every
\* XP award, whichever way the awards of two sessions interleave.
C21_LevelMatchesXp ==
  /\ users.bond_level = get_bond_level_info(users.bond_xp).level
  /\ users.bond_title = get_bond_level_info(users.bond_xp).title
  /\ users.bond_xp >= 500 <=> users.bond_level >= 2
  /\ users.bond_xp >= 1500 <=> users.bond_level >= 3
  /\ users.bond_xp >= 3000 <=> users.bond_level >= 4
  /\ users.bond_xp >= 5000 <=> users.bond_level = 5

\* an award has taken the user over a threshold
C21_Witness ==
  /\ users.bond_xp = 500 /\ users.bond_level = 2 /\ users.bond_title = "Heart Hacker"
  /\ \E c \in Ids : companion_bonds[c] # <<>>

\* C22: the persisted bond_xp never decreases, whichever way the read and the
\* write of the awards of two sessions interleave.
C22_XpNeverDecreases ==
  [][users'.bond_xp >= users.bond_xp]_vars

\* C23: award_chat_xp reports no XP when update_user_bond_xp has failed (no
\* row, or the read or the update raised), so that the amount it returns is the
\* amount by which the persisted bond_xp grew.
C23_NoSilentSuccess ==
  [][\A s \in Sessions :
       (pc[s] = "bonds" /\ pc'[s] = "messages")
         => xp_earned'[s] = IF updated_user[s] = <<>> THEN 0
                            ELSE updated_user[s][1].bond_xp - old_xp[s]]_vars

C25_ScoreFreshAfterPurchase ==
  [][\A s \in Sessions :
       BuyAirdrop(s) =>
         /\ users'.collection_score
              = calculate_collection_score(collection_set', CID2COMP).total
         /\ users'.collection_level
              = get_collection_level_info(users'.collection_score).level
         /\ users'.collection_title
              = get_collection_level_info(users'.collection_score).title]_vars

\* C26: for each tier and each pool of candidates with a companion of every
\* rarity, the share of the entries of the weighted list that have a given
\* rarity is the tier's listed odds for that rarity, in percent.
C26_ShareIsListedOdds ==
  \A k \in DOMAIN computed :
    computed[k].call = "roll_mystery_companion" =>
      LET w == computed[k].result
          entries(r) == SumFn([c \in {x \in DOMAIN w : get_actual_rarity(x) = r} |-> w[c]])
      IN  (\A r \in {"Common", "Rare", "Legendary"} : entries(r) > 0)
            => \A r \in {"Common", "Rare", "Legendary"} :
                 100 * entries(r) = MYSTERY_ODDS[computed[k].mystery_tier][r] * SumFn(w)

\* C27: for every companion and every purchased tier the surprise_factor of
\* the reveal is upgrade when the rarity of the companion's stats (Legendary
\* from 400, Rare from 350, else Common) ranks above the tier's expected rarity
\* (Basic Common, Premium Rare, Elite Legendary), expected when the two are
\* equal, and downgrade when it ranks below.
C27_SurpriseByRank ==
  \A k \in DOMAIN computed :
    computed[k].call = "calculate_mystery_reveal_tier" =>
      LET total == computed[k].total_stats
          rank == IF total >= 400 THEN 3 ELSE IF total >= 350 THEN 2 ELSE 1
          expected == CASE computed[k].purchased_tier = "Basic Bond" -> 1
                        [] computed[k].purchased_tier = "Premium Bond" -> 2
                        [] computed[k].purchased_tier = "Elite Bond" -> 3
      IN  computed[k].result.surprise_factor
            = IF rank > expected THEN "upgrade"
              ELSE IF rank = expected THEN "expected" ELSE "downgrade"

\* a companion of total 349 out of a Premium Bond box is a downgrade
C27_Witness ==
  \E k \in DOMAIN computed :
    /\ computed[k].call = "calculate_mystery_reveal_tier"
    /\ computed[k].total_stats = 349 /\ computed[k].purchased_tier = "Premium Bond"
    /\ computed[k].result.surprise_factor = "downgrade"

\* C28: for every owned set at most one achievement of the collection size
\* fires (15 or more: 300, else 8 or more: 100, else 3 or more: 50), at most
\* one of the number of Legendary companions (5 or more: 500, else 2 or more:
\* 150, else 1: 75), Rarity Master (200) fires exactly when all three rarities
\* are owned, and Stat Perfectionist (100) is added once however many
\* companions have a stat of 95; three Legendary companions alone get a rarity
\* bonus of 375, Legend Collector and First Steps, and no Rarity Master.
C28_AchievementsFireOnce ==
  \A k \in DOMAIN computed :
    (computed[k].call = "calculate_collection_score" /\ computed[k].owned_ids # {}) =>
      LET owned == computed[k].owned_ids
          b == computed[k].result.breakdown
          earned == b["achievements_earned"]
          names == {earned[j] : j \in DOMAIN earned}
          n == Cardinality(owned)
          legendary == Cardinality({i \in owned : BIG_CID2COMP[i].total_stats >= 400})
          rare == Cardinality({i \in owned : BIG_CID2COMP[i].total_stats >= 350
                                             /\ BIG_CID2COMP[i].total_stats < 400})
          common == Cardinality({i \in owned : BIG_CID2COMP[i].total_stats < 350})
          perfect == \E i \in owned : \E t \in Traits : BIG_CID2COMP[i].stats[t] >= 95
          size_names == {"Mega Collector (15+ companions)",
                         "Growing Collection (8+ companions)",
                         "First Steps (3+ companions)"}
          legend_names == {"Legend Master (5+ Legendaries)",
                           "Legend Collector (2+ Legendaries)", "First Legend"}
      IN  /\ Len(earned) = Cardinality(names)
          /\ Cardinality(names \cap size_names) <= 1
          /\ Cardinality(names \cap legend_names) <= 1
          /\ "Rarity Master (All tiers)" \in names
               <=> (legendary > 0 /\ rare > 0 /\ common > 0)
          /\ "Stat Perfectionist (95+ stat)" \in names <=> perfect
          /\ b["achievement_bonus"]
               = (IF n >= 15 THEN 300 ELSE IF n >= 8 THEN 100 ELSE IF n >= 3 THEN 50 ELSE 0)
                 + (IF legendary >= 5 THEN 500 ELSE IF legendary >= 2 THEN 150
                    ELSE IF legendary >= 1 THEN 75 ELSE 0)
                 + (IF legendary > 0 /\ rare > 0 /\ common > 0 THEN 200 ELSE 0)
                 + (IF perfect THEN 100 ELSE 0)
          /\ (n = 3 /\ legendary = 3) =>
               /\ b["rarity_bonus"] = 375
               /\ {"First Steps (3+ companions)", "Legend Collector (2+ Legendaries)"}
                    \subseteq names
               /\ "Rarity Master (All tiers)" \notin names

\* the score of three Legendary companions
C28_Witness ==
  \E k \in DOMAIN computed :
    /\ computed[k].call = "calculate_collection_score"
    /\ computed[k].owned_ids = {1, 2, 3}
    /\ computed[k].result.breakdown["rarity_bonus"] = 375
    /\ computed[k].result.breakdown["achievement_bonus"] = 200

\* C29: as long as a session goes on its counter of LLM tokens never
\* decreases, and once the counter is at MAX_TOKENS or above no chat input of
\* the session gets a completion request, XP or stored messages: a run goes to
\* the completion only with the counter below MAX_TOKENS, XP and messages
\* follow a completion of the same run only, and nothing else changes bond_xp,
\* the companion bonds or the messages.
C29_BudgetStopsChat ==
  [][\A s \in scope.sessions :
       LET Awarding == {"xp_read", "xp_write", "bonds", "messages", "refresh"}
       IN  /\ (pc[s] \notin {"out", "login"} /\ pc'[s] # "out") => spent'[s] >= spent[s]
           /\ (pc'[s] = "completion" /\ pc[s] # "completion") => spent[s] < MAX_TOKENS
           /\ (pc'[s] \in Awarding /\ pc[s] \notin Awarding) => pc[s] = "completion"
           /\ (spent[s] >= MAX_TOKENS /\ pc[s] \notin Awarding /\ pc[s] \notin {"out", "login"})
                => /\ spent'[s] = spent[s] \/ pc'[s] = "out"
                   /\ users'.bond_xp = users.bond_xp
                   /\ companion_bonds' = companion_bonds
                   /\ messages' = messages]_vars

\* the budget is used up exactly, and the run of a later chat input has ended
\* with nothing awarded or stored for it
C29_Witness ==
  \E s \in Sessions :
    /\ spent[s] = MAX_TOKENS /\ pc[s] = "idle" /\ input[s] # <<>>
    /\ runs = 2 /\ messages = 2 /\ xp_earned[s] = 0
    /\ users.bond_xp = total_xp(20)

\* C30: over the visits of the confirmation link of one user id at most one
\* users row is created, with 1000 tokens, bond_xp 0 and level 1; it is created
\* only when a pending signup for the link's email exists that has not
\* expired; and a visit made when the row exists leaves the row as it is.
C30_RowCreatedOnce ==
  [][/\ user_rows' <= 1
     /\ user_rows' > user_rows =>
          /\ \E r \in pending_signups : r.email = confirm.email /\ r.expires_at >= now
          /\ users'.tokens = 1000 /\ users'.bond_xp = 0 /\ users'.bond_level = 1
     /\ (user_rows > 0 /\ confirm' # confirm) =>
          users' = users /\ user_rows' = user_rows]_vars

====
